---- MODULE Spec2Model ----
(***************************************************************************)
(* GS13Bot: the notification engine, the subscriber store and the command  *)
(* handlers.  The repository holds two implementations of the same bot:    *)
(*   "bot" - src/bot.py (module-level functions, threading.Timer, a global *)
(*           user_data_dict mirrored by utils.save_to_json);               *)
(*   "um"  - src/main.py with src/update_manager.py, command_handlers.py,  *)
(*           user_data_manager.py and helpers.py (asyncio, job queue).     *)
(* impl is chosen in Init and never changes; every action is translated    *)
(* from the code of the implementation that impl names.                    *)
(***************************************************************************)
EXTENDS Integers, Sequences, FiniteSets, TLC

VARIABLES
    impl,                   \* which implementation runs
    user_data_dict,         \* the in-memory store, a Python dict in insertion order
    file,                   \* data/user_data.json
    initial_job_found_time, \* bot.py:31 (process global)
    clock,                  \* wall clock, read by time.localtime()
    cycle,                  \* number of poll cycles this process has begun
    probe,                  \* outcome of the upstream probe of the current cycle
    pc,                     \* the poll cycle: "idle", or "await" inside a transport call
    message_text,           \* text composed for the current cycle
    pos,                    \* index of the dict entry the fan-out is at
    iterSize,               \* size of the dict when the iteration began
    pending,                \* the transport call the fan-out is waiting on
    ended,                  \* how the last cycle finished
    timer,                  \* "armed" while a next cycle is scheduled
    messages,               \* the messages the chat transport holds; index = message id
    log,                    \* the transport calls of the current cycle, and /repost's
    visits,                 \* entries the current fan-out has reached, as read
    reply,                  \* the reply of the last command handler
    last,                   \* the last put: key, record written, outcome of the write
    writeFailures,          \* number of durable writes that failed
    commands,               \* number of commands handled
    process,                \* "starting", "loaded", "running" or "exited"
    env,                    \* the credentials set in the environment
    conversations,          \* per user, the field conversations awaiting a reply
    field_to_clear,         \* per user, context.user_data['field_to_clear']
    inputs,                 \* number of conversation updates handled
    runs,                   \* number of times the process was started
    failures                \* the transport calls that failed in the cycle before

vars == <<impl, user_data_dict, file, initial_job_found_time, clock, cycle, probe,
          pc, message_text, pos, iterSize, pending, ended, timer, messages, log,
          visits, reply, last, writeFailures, commands, process, env,
          conversations, field_to_clear, inputs, runs, failures>>

\* What no command handler of the first group and no poll cycle changes.
processVars == <<impl, process, env, runs>>

conversationVars == <<conversations, field_to_clear, inputs>>

engineVars == <<initial_job_found_time, clock, cycle, probe, pc, message_text, pos,
                iterSize, pending, ended, timer, visits, failures>>

----------------------------------------------------------------------------
(* Bounds of the model *)

MaxCycles == 2
MaxWriteFailures == 1
MaxCommands == 2

(* Inputs *)

Impls == {"bot", "um"}
UserIds == {1, 2}
ChatIds == {101, 102}
Nouns == {"Cat"}

----------------------------------------------------------------------------
(* Python values.  Every value carries its type so that None, bool, int    *)
(* and str stay distinct.                                                  *)

None == <<"None">>
PyInt(n) == <<"int", n>>
PyStr(s) == <<"str", s>>
PyBool(b) == <<"bool", b>>

IsNone(v) == v[1] = "None"

\* bool(x), "if x", "if not x"
Truthy(v) ==
    CASE v[1] = "None" -> FALSE
      [] v[1] = "bool" -> v[2]
      [] v[1] = "int"  -> v[2] # 0
      [] v[1] = "str"  -> v[2] # ""

\* str(update.message.from_user.id): the dict key of a subscriber
StrOfInt(n) == ToString(n)

\* int(user_id)
IntOfStr(s) == CHOOSE n \in UserIds : ToString(n) = s

Fields == {"user_id", "chat_id", "username", "email", "phone",
           "status_message_id", "active"}

----------------------------------------------------------------------------
(* A Python dict, kept in insertion order: a sequence of [k, v] entries.   *)

EmptyDict == << >>

DictKeys(d) == {d[i].k : i \in DOMAIN d}

DictHas(d, key) == key \in DictKeys(d)

DictIndex(d, key) == CHOOSE i \in DOMAIN d : d[i].k = key

DictGet(d, key) == d[DictIndex(d, key)].v

\* d[key] = value
DictSet(d, key, value) ==
    IF DictHas(d, key)
    THEN [d EXCEPT ![DictIndex(d, key)].v = value]
    ELSE Append(d, [k |-> key, v |-> value])

\* d[key] = {field: value}: the record is replaced by one that holds the
\* field alone.
DictSetField_whole_record(d, key, field, value) ==
    [d EXCEPT ![DictIndex(d, key)].v = [f \in Fields |-> IF f = field THEN value ELSE None]]

\* d[key][field] = value
DictSetField(d, key, field, value) ==
    [d EXCEPT ![DictIndex(d, key)].v[field] = value]

----------------------------------------------------------------------------
(* json.dump / json.load of the store.                                     *)

\* JsonEnc writing a bool as a number.
JsonEnc_bool_as_number(v) ==
    CASE v[1] = "None" -> <<"null">>
      [] v[1] = "bool" -> <<"number", IF v[2] THEN 1 ELSE 0>>
      [] v[1] = "int"  -> <<"number", v[2]>>
      [] v[1] = "str"  -> <<"string", v[2]>>

JsonEnc(v) ==
    CASE v[1] = "None" -> <<"null">>
      [] v[1] = "bool" -> IF v[2] THEN <<"true">> ELSE <<"false">>
      [] v[1] = "int"  -> <<"number", v[2]>>
      [] v[1] = "str"  -> <<"string", v[2]>>

JsonDec(j) ==
    CASE j[1] = "null"   -> None
      [] j[1] = "true"   -> PyBool(TRUE)
      [] j[1] = "false"  -> PyBool(FALSE)
      [] j[1] = "number" -> PyInt(j[2])
      [] j[1] = "string" -> PyStr(j[2])

JsonDump(d) ==
    [i \in DOMAIN d |-> [k |-> d[i].k,
                         v |-> [f \in Fields |-> JsonEnc(d[i].v[f])]]]

JsonLoad(doc) ==
    [i \in DOMAIN doc |-> [k |-> doc[i].k,
                           v |-> [f \in Fields |-> JsonDec(doc[i].v[f])]]]

\* The durable file: missing, unparsable, or a JSON document.
FileMissing == [state |-> "missing", doc |-> << >>]
FileMalformed == [state |-> "malformed", doc |-> << >>]
FileDoc(doc) == [state |-> "doc", doc |-> doc]

\* load_data seeding a placeholder entry when the file cannot be read.
load_data_seeded(f) ==
    IF f.state = "doc" THEN JsonLoad(f.doc)
    ELSE << [k |-> "0", v |-> [field \in Fields |-> None]] >>

\* load_from_json / UserDataManager.load_data
load_data(f) == IF f.state = "doc" THEN JsonLoad(f.doc) ELSE EmptyDict

WriteOutcomes == {"ok", "open_failed", "write_failed"}

\* save_data writing one record, the last of the dict, instead of the dict.
save_data_one_record(d, f, outcome) ==
    CASE outcome = "ok"           -> FileDoc(JsonDump(SubSeq(d, Len(d), Len(d))))
      [] outcome = "open_failed"  -> f
      [] outcome = "write_failed" -> FileMalformed

\* save_data writing again until the write succeeds.
save_data_retrying(d, f, outcome) == FileDoc(JsonDump(d))

\* save_data leaving alone a file that is not a document it could read.
save_data_keeping_unreadable(d, f, outcome) ==
    CASE outcome = "ok"           -> IF f.state = "doc" THEN FileDoc(JsonDump(d)) ELSE f
      [] outcome = "open_failed"  -> f
      [] outcome = "write_failed" -> FileMalformed

\* save_to_json / UserDataManager.save_data: the file after writing d.
\* open(..., 'w') truncates, so a write that fails after the open leaves an
\* unparsable file; a failing open leaves the file as it was.
save_data(d, f, outcome) ==
    CASE outcome = "ok"           -> FileDoc(JsonDump(d))
      [] outcome = "open_failed"  -> f
      [] outcome = "write_failed" -> FileMalformed

----------------------------------------------------------------------------
(* State after construction *)

\* Stores written by an earlier run of the bot.  In the first, one subscriber
\* is active, has a profile and a stored status message; in the second a
\* subscriber who has just activated follows it.
PriorStore ==
    << [k |-> "1",
        v |-> [user_id |-> PyInt(1), chat_id |-> PyInt(101),
               username |-> PyStr("Black Cat"), email |-> PyStr("a@b.cd"),
               phone |-> PyStr("5551234567"), status_message_id |-> PyInt(1),
               active |-> PyBool(TRUE)]] >>

PriorStore2 ==
    Append(PriorStore,
           [k |-> "2",
            v |-> [user_id |-> PyInt(2), chat_id |-> PyInt(102),
                   username |-> PyStr("Black Owl"), email |-> None,
                   phone |-> None, status_message_id |-> None,
                   active |-> PyBool(TRUE)]])

\* The status message that run left in the first subscriber's chat.
PriorMessages == << [chat_id |-> PyInt(101), found |-> FALSE] >>

InitFiles == {FileMissing, FileMalformed, FileDoc(JsonDump(PriorStore)),
              FileDoc(JsonDump(PriorStore2))}

NoRecord == [f \in Fields |-> None]
NoPut == [op |-> "none", key |-> "", value |-> NoRecord, outcome |-> "ok"]
NoReply == [to |-> "", cmd |-> "", kind |-> "none"]

\* What a handler sent back: kind "none" when it sent nothing.
Reply(user_id, cmd, kind) == [to |-> user_id, cmd |-> cmd, kind |-> kind]
NoPending == [key |-> "", branch |-> "none", chat_id |-> None,
              status_message_id |-> None]

\* The keys fetch_environment_variables requires.
Credentials == {"USAJOBS_AUTHORIZATION_KEY", "USAJOBS_USER_AGENT",
                "TELEGRAM_BOT_TOKEN"}

\* No ConversationHandler holds a state, context.user_data is empty.
NoConversations == [u \in UserIds |-> {}]
NoFieldToClear == [u \in UserIds |-> None]

Init ==
    /\ impl \in Impls
    /\ file \in InitFiles
    /\ user_data_dict = load_data(file)
    /\ initial_job_found_time = None
    /\ clock = 0
    /\ cycle = 0
    /\ probe = "none"
    /\ pc = "idle"
    /\ message_text = << >>
    /\ pos = 0
    /\ iterSize = 0
    /\ pending = NoPending
    /\ ended = "none"
    /\ timer = "armed"
    /\ messages = IF file.state = "doc" THEN PriorMessages ELSE << >>
    /\ log = << >>
    /\ visits = << >>
    /\ reply = NoReply
    /\ last = NoPut
    /\ writeFailures = 0
    /\ commands = 0
    /\ process = "running"
    /\ env = Credentials
    /\ conversations = NoConversations
    /\ field_to_clear = NoFieldToClear
    /\ inputs = 0
    /\ runs = 1
    /\ failures = {}

----------------------------------------------------------------------------
(* The store's put: in-memory mutation followed by a whole-store write.    *)

CanWrite(outcome) == outcome = "ok" \/ writeFailures < MaxWriteFailures

\* update_user_data keeping only the record it was given: every other
\* entry leaves the store.
update_user_data_replacing(d, key, outcome) ==
    LET only == << [k |-> key, v |-> DictGet(d, key)] >> IN
    /\ user_data_dict' = only
    /\ file' = save_data(only, file, outcome)
    /\ last' = [op |-> "put", key |-> key, value |-> DictGet(d, key),
                outcome |-> outcome]
    /\ writeFailures' = IF outcome = "ok" THEN writeFailures ELSE writeFailures + 1

\* update_user_data writing the file before it changes the store: the file
\* gets the store without the mutation.
update_user_data_save_first(d, key, outcome) ==
    /\ user_data_dict' = d
    /\ file' = save_data(user_data_dict, file, outcome)
    /\ last' = [op |-> "put", key |-> key, value |-> DictGet(d, key),
                outcome |-> outcome]
    /\ writeFailures' = IF outcome = "ok" THEN writeFailures ELSE writeFailures + 1

\* UserDataManager.update_user_data, and in bot.py the statement pair
\* "user_data_dict[...] = ...; save_to_json(user_data_dict, 'user_data.json')".
\* d is the dict after the in-memory mutation.  Both save functions catch the
\* I/O error, so the caller goes on.
update_user_data(d, key, outcome) ==
    /\ user_data_dict' = d
    /\ file' = save_data(d, file, outcome)
    /\ last' = [op |-> "put", key |-> key, value |-> DictGet(d, key),
                outcome |-> outcome]
    /\ writeFailures' = IF outcome = "ok" THEN writeFailures ELSE writeFailures + 1

StoreUnchanged == UNCHANGED <<user_data_dict, file, last, writeFailures>>

----------------------------------------------------------------------------
(* Command handlers *)

\* One more update is taken from the transport and dispatched to its handler.
Dispatched ==
    /\ commands < MaxCommands
    /\ commands' = commands + 1

\* bot.py generate_username: a file error yields the error text as the name.
\* helpers.Helper.generate_username: a file error is re-raised.
UsernameError == "An error occurred while generating your username. Please try again."

generate_username(nounsOk, noun) ==
    IF nounsOk THEN "Black " \o noun ELSE UsernameError

\* new_user_data with the subscription switched on at registration.
new_user_data_active(u, c, username) ==
    [user_id |-> PyInt(IntOfStr(StrOfInt(u))), chat_id |-> PyInt(c),
     username |-> PyStr(username), email |-> None, phone |-> None,
     status_message_id |-> None, active |-> PyBool(TRUE)]

\* "new_user_data = {...}" (bot.py:237-245, command_handlers.py:79-87)
new_user_data(u, c, username) ==
    [user_id |-> PyInt(IntOfStr(StrOfInt(u))), chat_id |-> PyInt(c),
     username |-> PyStr(username), email |-> None, phone |-> None,
     status_message_id |-> None, active |-> PyBool(FALSE)]

\* needs_registration with the existence test lost: /start always creates.
needs_registration_always(d, user_id) == TRUE

\* "if user_id not in user_data_dict" (bot.py:233), "if not user_data"
\* (command_handlers.py:75; a stored record is never an empty dict)
needs_registration(d, user_id) == ~DictHas(d, user_id)

\* /start
start(u, c) ==
    LET user_id == StrOfInt(u) IN
    /\ Dispatched
    /\ UNCHANGED <<processVars, conversationVars, engineVars, messages, log>>
    /\ IF needs_registration(user_data_dict, user_id)
       THEN \E nounsOk \in BOOLEAN, noun \in Nouns, outcome \in WriteOutcomes,
               photoOk \in BOOLEAN :
              /\ CanWrite(outcome)
              /\ IF impl = "um" /\ ~nounsOk
                 THEN \* Helper.generate_username raised: caught, error reply
                      /\ StoreUnchanged
                      /\ reply' = Reply(user_id, "start", "error")
                 ELSE /\ update_user_data(
                            DictSet(user_data_dict, user_id,
                                    new_user_data(u, c, generate_username(nounsOk, noun))),
                            user_id, outcome)
                      /\ reply' = IF impl = "um" /\ ~photoOk
                                  THEN \* the photo could not be opened or sent:
                                       \* the handler raises after the put
                                       Reply(user_id, "start", "none")
                                  ELSE Reply(user_id, "start", "welcome")
       ELSE /\ StoreUnchanged
            /\ reply' = Reply(user_id, "start",
                               IF Truthy(DictGet(user_data_dict, user_id).active)
                               THEN "type_deactivate" ELSE "type_activate")

\* /activate
activate(u) ==
    LET user_id == StrOfInt(u) IN
    /\ Dispatched
    /\ UNCHANGED <<processVars, conversationVars, engineVars, messages, log>>
    /\ IF ~DictHas(user_data_dict, user_id)
       THEN /\ StoreUnchanged
            /\ reply' = Reply(user_id, "activate", "register_first")
       ELSE IF ~Truthy(DictGet(user_data_dict, user_id).active)
       THEN \E outcome \in WriteOutcomes :
              /\ CanWrite(outcome)
              /\ update_user_data(
                    DictSetField(user_data_dict, user_id, "active", PyBool(TRUE)),
                    user_id, outcome)
              /\ reply' = Reply(user_id, "activate", "activated")
       ELSE /\ StoreUnchanged
            /\ reply' = Reply(user_id, "activate", "already_active")

\* /deactivate forgetting the status message as well.
deactivate_dropping_handle(u) ==
    LET user_id == StrOfInt(u) IN
    /\ Dispatched
    /\ UNCHANGED <<processVars, conversationVars, engineVars, messages, log>>
    /\ IF ~DictHas(user_data_dict, user_id)
       THEN /\ StoreUnchanged
            /\ reply' = Reply(user_id, "deactivate", "register_first")
       ELSE IF Truthy(DictGet(user_data_dict, user_id).active)
       THEN \E outcome \in WriteOutcomes :
              /\ CanWrite(outcome)
              /\ update_user_data(
                    DictSetField(
                       DictSetField(user_data_dict, user_id, "active", PyBool(FALSE)),
                       user_id, "status_message_id", None),
                    user_id, outcome)
              /\ reply' = Reply(user_id, "deactivate", "deactivated")
       ELSE /\ StoreUnchanged
            /\ reply' = Reply(user_id, "deactivate", "already_inactive")

\* /deactivate
deactivate(u) ==
    LET user_id == StrOfInt(u) IN
    /\ Dispatched
    /\ UNCHANGED <<processVars, conversationVars, engineVars, messages, log>>
    /\ IF ~DictHas(user_data_dict, user_id)
       THEN /\ StoreUnchanged
            /\ reply' = Reply(user_id, "deactivate", "register_first")
       ELSE IF Truthy(DictGet(user_data_dict, user_id).active)
       THEN \E outcome \in WriteOutcomes :
              /\ CanWrite(outcome)
              /\ update_user_data(
                    DictSetField(user_data_dict, user_id, "active", PyBool(FALSE)),
                    user_id, outcome)
              /\ reply' = Reply(user_id, "deactivate", "deactivated")
       ELSE /\ StoreUnchanged
            /\ reply' = Reply(user_id, "deactivate", "already_inactive")

----------------------------------------------------------------------------
(* The poll cycle *)

ProbeResults == {"found", "notfound", "error"}

\* job_search.check_for_job_posting: True when filtered results exist; when
\* there are none the function falls off its end and returns None; every
\* exception (timeout, status code, malformed body) is caught inside and
\* None is returned.
check_for_job_posting(r) ==
    IF r = "found" THEN PyBool(TRUE) ELSE None

\* time.strftime('%Y-%m-%d %H:%M:%S', time.localtime())
strftime(t) == ToString(t)

FoundText(first, timestamp) ==
    <<"Job found!", " Initially found at ", first, ". Last verified at ",
      timestamp, ".\n/deactivate">>

NotFoundText(timestamp) == <<"Not yet... Last checked at ", timestamp>>

\* the value initial_job_found_time holds after the call
first_found_after(is_job_posted, timestamp) ==
    IF is_job_posted /\ IsNone(initial_job_found_time)
    THEN PyStr(timestamp) ELSE initial_job_found_time

\* bot.py generate_update_message_text / Helper.generate_update_message_text
generate_update_message_text(is_job_posted, timestamp) ==
    IF is_job_posted
    THEN FoundText(first_found_after(is_job_posted, timestamp)[2], timestamp)
    ELSE NotFoundText(timestamp)

\* "Job found!" in message_text
job_found(text) == \E i \in DOMAIN text : text[i] = "Job found!"

\* One store entry as the fan-out sees it.
Visit(entry, action) ==
    [key |-> entry.k, chat_id |-> entry.v.chat_id,
     status_message_id |-> entry.v.status_message_id,
     active |-> entry.v.active, action |-> action]

\* The entries from index p on, none of which the fan-out served.
Unreached(d, p) ==
    [i \in 1..(IF Len(d) >= p THEN Len(d) - p + 1 ELSE 0) |->
        Visit(d[p + i - 1], "unreached")]

\* branch_of without the "if job_found" test: a found cycle edits the status
\* message, or sends one and stores its id.
branch_of_without_found(text, status_message_id) ==
    IF ~IsNone(status_message_id) THEN "edit" ELSE "send"

\* branch_of with the found message sent through the branch that stores the
\* id of the message it sent.
branch_of_found_stored(text, status_message_id) ==
    IF ~job_found(text) /\ ~IsNone(status_message_id) THEN "edit" ELSE "send"

\* The branch send_update takes for an active entry with a chat id.
branch_of(text, status_message_id) ==
    IF job_found(text) THEN "found"
    ELSE IF ~IsNone(status_message_id) THEN "edit"
    ELSE "send"

\* is_served without the "if not active: continue" test.
is_served_ignoring_active(entry) == ~IsNone(entry.v.chat_id)

\* Whether the loop body goes on to the transport call for this entry.
is_served(entry) == ~IsNone(entry.v.chat_id) /\ Truthy(entry.v.active)

\* The index of the first entry from p on that the loop body serves, or
\* Len(d) + 1 when it skips them all.
next_served(d, p) ==
    IF \E i \in p..Len(d) : is_served(d[i])
    THEN CHOOSE i \in p..Len(d) :
            is_served(d[i]) /\ \A k \in p..(i - 1) : ~is_served(d[k])
    ELSE Len(d) + 1

\* The entries p..q-1, which the loop body skipped.
Skipped(d, p, q) == [i \in 1..(q - p) |-> Visit(d[p + i - 1], "skip")]

Call(entry, branch, text, n) ==
    [cycle |-> n, key |-> entry.k, chat_id |-> entry.v.chat_id,
     op |-> IF branch = "edit" THEN "edit" ELSE "send",
     message_id |-> IF branch = "edit" THEN entry.v.status_message_id ELSE None,
     text |-> text, active |-> entry.v.active, result |-> "pending", ret |-> None]

\* "for user_id, user_data in user_data_dict.items()" from the iterator's
\* next() for index p up to the next transport call or the end of the loop.
\* d is the dict now, size its size when the iterator was created, vis and lg
\* the visits and the calls so far, text the message, n the cycle.  The code
\* between two transport calls runs without interruption.
send_update_loop(d, p, size, vis, lg, text, n) ==
    IF Len(d) # size
    THEN \* RuntimeError: dictionary changed size during iteration.  Nothing
         \* on the way up catches it: in bot.py the timer thread ends before
         \* it re-arms the timer; the job queue runs the job again.
         /\ ended' = "raised"
         /\ pc' = "idle"
         /\ timer' = IF impl = "bot" THEN "dead" ELSE timer
         /\ visits' = vis \o Unreached(d, p)
         /\ pos' = p
         /\ pending' = NoPending
         /\ log' = lg
    ELSE LET q == next_served(d, p) IN
         IF q > Len(d)
         THEN /\ ended' = "completed"
              /\ pc' = "idle"
              /\ timer' = timer
              /\ visits' = vis \o Skipped(d, p, q)
              /\ pos' = q
              /\ pending' = NoPending
              /\ log' = lg
         ELSE LET branch == branch_of(text, d[q].v.status_message_id) IN
              /\ ended' = "running"
              /\ pc' = "await"
              /\ timer' = timer
              /\ visits' = Append(vis \o Skipped(d, p, q), Visit(d[q], branch))
              /\ pos' = q
              /\ pending' = [key |-> d[q].k, branch |-> branch,
                             chat_id |-> d[q].v.chat_id,
                             status_message_id |-> d[q].v.status_message_id]
              /\ log' = Append(lg, Call(d[q], branch, text, n))

\* The calls of cycle n that raised: subscriber, operation, and whether the
\* text was a found message.
Failures(lg, n) ==
    {[key |-> lg[i].key, op |-> lg[i].op, found |-> job_found(lg[i].text)] :
        i \in {k \in DOMAIN lg : /\ n > 0
                                 /\ lg[k].cycle = n
                                 /\ lg[k].result = "error"}}

\* get_update started by the timer whether or not the cycle before it has
\* finished.
get_update_overlapping(r) ==
    /\ timer = "armed"
    /\ failures' = Failures(log, cycle)
    /\ LET status == Truthy(check_for_job_posting(r))
           timestamp == strftime(clock + 1)
       IN
       /\ probe' = r
       /\ clock' = clock + 1
       /\ cycle' = cycle + 1
       /\ IF impl = "um" /\ status
          THEN \* Helper.generate_update_message_text is called with the
               \* application as self; reading self.initial_job_found_time
               \* raises AttributeError, which get_update does not catch.
               /\ ended' = "raised"
               /\ pc' = "idle"
               /\ visits' = Unreached(user_data_dict, 1)
               /\ log' = << >>
               /\ pending' = NoPending
               /\ UNCHANGED <<initial_job_found_time, message_text, pos, iterSize,
                              timer>>
          ELSE /\ initial_job_found_time' = first_found_after(status, timestamp)
               /\ message_text' = generate_update_message_text(status, timestamp)
               /\ iterSize' = Len(user_data_dict)
               /\ send_update_loop(user_data_dict, 1, Len(user_data_dict), << >>,
                                   << >>,
                                   generate_update_message_text(status, timestamp),
                                   cycle + 1)
    /\ UNCHANGED <<processVars, conversationVars, user_data_dict, file, messages, reply, last,
                   writeFailures, commands>>

\* get_updates (bot.py) / UpdateManager.get_update: probe, compose, and the
\* fan-out up to its first transport call.
get_update(r) ==
    /\ pc = "idle"
    /\ timer = "armed"
    /\ failures' = Failures(log, cycle)
    /\ LET status == Truthy(check_for_job_posting(r))
           timestamp == strftime(clock + 1)
       IN
       /\ probe' = r
       /\ clock' = clock + 1
       /\ cycle' = cycle + 1
       /\ IF impl = "um" /\ status
          THEN \* Helper.generate_update_message_text is called with the
               \* application as self; reading self.initial_job_found_time
               \* raises AttributeError, which get_update does not catch.
               /\ ended' = "raised"
               /\ pc' = "idle"
               /\ visits' = Unreached(user_data_dict, 1)
               /\ log' = << >>
               /\ pending' = NoPending
               /\ UNCHANGED <<initial_job_found_time, message_text, pos, iterSize,
                              timer>>
          ELSE /\ initial_job_found_time' = first_found_after(status, timestamp)
               /\ message_text' = generate_update_message_text(status, timestamp)
               /\ iterSize' = Len(user_data_dict)
               /\ send_update_loop(user_data_dict, 1, Len(user_data_dict), << >>,
                                   << >>,
                                   generate_update_message_text(status, timestamp),
                                   cycle + 1)
    /\ UNCHANGED <<processVars, conversationVars, user_data_dict, file, messages, reply, last,
                   writeFailures, commands>>

\* The timer (bot.py:56) or the job queue (main.py:49-53) starts a poll cycle.
timer_tick(r) ==
    /\ cycle < MaxCycles
    /\ get_update(r)

\* The index in log of the call the fan-out is waiting on.
PendingIndex == CHOOSE i \in DOMAIN log : log[i].result = "pending"

\* The message id the transport gives to the next message it creates.
NextMessageId == Len(messages) + 1

\* The transport call returns (ok) or raises: the rest of the loop body, and
\* the loop up to the next transport call.
send_update_return(ok) ==
    /\ pc = "await"
    /\ UNCHANGED <<processVars, conversationVars, initial_job_found_time, clock, cycle, probe, message_text,
                   iterSize, reply, commands, failures>>
    /\ LET stored == ok /\ pending.branch = "send"
           d == IF stored
                THEN DictSetField(user_data_dict, pending.key, "status_message_id",
                                  PyInt(NextMessageId))
                ELSE user_data_dict
           lg == [log EXCEPT
                    ![PendingIndex].result = IF ok THEN "ok" ELSE "error",
                    ![PendingIndex].ret =
                        IF ~ok THEN None
                        ELSE IF pending.branch = "edit"
                             THEN pending.status_message_id
                             ELSE PyInt(NextMessageId)]
       IN
       /\ messages' = IF ok /\ pending.branch # "edit"
                      THEN Append(messages, [chat_id |-> pending.chat_id,
                                             found |-> job_found(message_text)])
                      ELSE messages
       /\ IF stored
          THEN \E outcome \in WriteOutcomes :
                 /\ CanWrite(outcome)
                 /\ update_user_data(d, pending.key, outcome)
          ELSE StoreUnchanged
       /\ IF ~ok /\ impl = "um"
          THEN \* except (TelegramError, aiohttp.ClientError): log, return
               /\ ended' = "aborted"
               /\ pc' = "idle"
               /\ visits' = visits \o Unreached(d, pos + 1)
               /\ log' = lg
               /\ pending' = NoPending
               /\ UNCHANGED <<pos, timer>>
          ELSE \* bot.py "except Exception" logs and goes to the next entry
               send_update_loop(d, pos + 1, iterSize, visits, lg, message_text,
                                cycle)

----------------------------------------------------------------------------
(* /repost *)

\* has_status_message with the None test lost: /repost always copies.
has_status_message_always(user_data) == TRUE

\* "if status_message_id is None" (bot.py:191, command_handlers.py:34), negated
has_status_message(user_data) == ~IsNone(user_data.status_message_id)

\* The transport can copy only a message it holds.
MessageExists(message_id) ==
    message_id[1] = "int" /\ message_id[2] \in DOMAIN messages

repost(u) ==
    LET user_id == StrOfInt(u) IN
    /\ Dispatched
    /\ UNCHANGED <<processVars, conversationVars, engineVars>>
    /\ IF ~DictHas(user_data_dict, user_id)
       THEN /\ StoreUnchanged
            /\ UNCHANGED <<messages, log>>
            \* command_handlers.py:27 builds the reply coroutine and never
            \* awaits it, so nothing is sent
            /\ reply' = Reply(user_id, "repost",
                              IF impl = "bot" THEN "register_first" ELSE "none")
       ELSE LET user_data == DictGet(user_data_dict, user_id) IN
            IF ~has_status_message(user_data)
            THEN /\ StoreUnchanged
                 /\ UNCHANGED <<messages, log>>
                 /\ reply' = Reply(user_id, "repost", "no_status_message")
            ELSE IF impl = "um"
            THEN \* command_handlers.py:39-43 reads .message_id of a coroutine
                 \* that was never awaited: AttributeError, caught and logged
                 /\ StoreUnchanged
                 /\ UNCHANGED <<messages, log>>
                 /\ reply' = Reply(user_id, "repost", "none")
            ELSE /\ reply' = Reply(user_id, "repost", "none")
                 /\ \E ok \in (IF MessageExists(user_data.status_message_id)
                               THEN BOOLEAN ELSE {FALSE}) :
                      LET call == [cycle |-> 0, key |-> user_id,
                                   chat_id |-> user_data.chat_id, op |-> "copy",
                                   message_id |-> user_data.status_message_id,
                                   text |-> << >>, active |-> user_data.active,
                                   result |-> IF ok THEN "ok" ELSE "error",
                                   ret |-> IF ok THEN PyInt(NextMessageId) ELSE None]
                      IN
                      /\ log' = Append(log, call)
                      /\ IF ok
                         THEN /\ messages' =
                                   Append(messages,
                                          [chat_id |-> user_data.chat_id,
                                           found |-> messages[user_data.status_message_id[2]].found])
                              /\ \E outcome \in WriteOutcomes :
                                   /\ CanWrite(outcome)
                                   /\ update_user_data(
                                         DictSetField(user_data_dict, user_id,
                                                      "status_message_id",
                                                      PyInt(NextMessageId)),
                                         user_id, outcome)
                         ELSE /\ UNCHANGED messages
                              /\ StoreUnchanged

----------------------------------------------------------------------------
(* Specification *)

Next ==
    \/ \E u \in UserIds, c \in ChatIds : start(u, c)
    \/ \E u \in UserIds : activate(u)
    \/ \E u \in UserIds : deactivate(u)
    \/ \E u \in UserIds : repost(u)
    \/ \E r \in ProbeResults : timer_tick(r)
    \/ \E ok \in BOOLEAN : send_update_return(ok)

Spec == Init /\ [][Next]_vars

\* Scheduling.  threading.Timer(interval, ...).start() (bot.py:56) and
\* job_queue.run_repeating(..., interval=REFRESH_INTERVAL, first=0)
\* (main.py:49-53) run a scheduled cycle after a finite delay, and a
\* transport call returns or raises after a finite time: both steps are
\* taken whenever they stay possible.
SpecLive ==
    /\ Init
    /\ [][Next]_vars
    /\ WF_vars(\E r \in ProbeResults : timer_tick(r))
    /\ WF_vars(\E ok \in BOOLEAN : send_update_return(ok))

----------------------------------------------------------------------------
(* The three-tick scenario: a fresh store, commands only before the first  *)
(* tick, the probe sequence not found, not found, found, and a transport   *)
(* that answers every call.                                                *)

ScenarioProbes == <<"notfound", "notfound", "found">>

InitScenario == Init /\ file = FileMissing

scenario_register == cycle = 0 /\ \E u \in UserIds, c \in ChatIds : start(u, c)

scenario_activate == cycle = 0 /\ \E u \in UserIds : activate(u)

scenario_tick ==
    /\ cycle < Len(ScenarioProbes)
    /\ get_update(ScenarioProbes[cycle + 1])

scenario_transport == pc = "await" /\ send_update_return(TRUE)

NextScenario ==
    \/ scenario_register
    \/ scenario_activate
    \/ scenario_tick
    \/ scenario_transport

SpecScenario == InitScenario /\ [][NextScenario]_vars

----------------------------------------------------------------------------
(* Text replies and their validation.  A text is a sequence of characters; *)
(* a character is a one-character string, and UDigit stands for a decimal  *)
(* digit outside ASCII (ARABIC-INDIC DIGIT FIVE).                          *)

MaxInputs == 3

UDigit == "<U+0665>"

AsciiDigits == {"0", "1", "2", "3", "4", "5", "6", "7", "8", "9"}
Letters == {"a", "b", "c", "d", "x"}

\* str.strip() removes these
IsSpace(c) == c = " "

\* \d in a str pattern: every Unicode decimal digit
IsDecimalDigit(c) == c \in AsciiDigits \/ c = UDigit

\* [a-zA-Z0-9._%+-]
IsLocalChar(c) == c \in Letters \cup AsciiDigits \cup {".", "_", "%", "+", "-"}

\* [a-zA-Z0-9.-]
IsDomainChar(c) == c \in Letters \cup AsciiDigits \cup {".", "-"}

RECURSIVE lstrip(_)
lstrip(t) == IF t # << >> /\ IsSpace(Head(t)) THEN lstrip(Tail(t)) ELSE t

RECURSIVE rstrip(_)
rstrip(t) ==
    IF t # << >> /\ IsSpace(t[Len(t)]) THEN rstrip(SubSeq(t, 1, Len(t) - 1)) ELSE t

\* update.message.text.strip()
strip(t) == rstrip(lstrip(t))

\* The Python str of a text.
RECURSIVE Join(_)
Join(t) == IF t = << >> THEN "" ELSE Head(t) \o Join(Tail(t))

\* re.sub(r"[^\d]", "", new_phone)
remove_non_digits(t) == SelectSeq(t, IsDecimalDigit)

\* re.match(r"^[0-9]{10}$", new_phone) on a text without line breaks
PHONE_REGEX_match(t) == Len(t) = 10 /\ \A i \in DOMAIN t : t[i] \in AsciiDigits

\* (\.[a-zA-Z]{2,})+ matching the whole of g
TldGroups(g) ==
    /\ Len(g) >= 3
    /\ g[1] = "."
    /\ \A j \in DOMAIN g : g[j] = "." \/ g[j] \in Letters
    /\ \A j \in DOMAIN g :
         g[j] = "." => /\ j + 2 <= Len(g)
                       /\ g[j + 1] \in Letters
                       /\ g[j + 2] \in Letters

\* [a-zA-Z0-9._%+-]+@[a-zA-Z0-9.-]+(\.[a-zA-Z]{2,})+ matching the whole of w
EmailPattern(w) ==
    \E i \in 2..Len(w) :
      /\ w[i] = "@"
      /\ \A j \in 1..(i - 1) : IsLocalChar(w[j])
      /\ \E m \in (i + 1)..Len(w) :
           /\ \A j \in (i + 1)..m : IsDomainChar(w[j])
           /\ TldGroups(SubSeq(w, m + 1, Len(w)))

\* re.match(EMAIL_REGEX, new_email): the pattern has no end anchor, so it is
\* enough that some prefix of the text matches.
EMAIL_REGEX_match(t) == \E k \in 1..Len(t) : EmailPattern(SubSeq(t, 1, k))

Address == <<"a", "@", "b", ".", "c", "d">>
TenDigits == <<"5", "5", "5", "1", "2", "3", "4", "5", "6", "7">>

\* The texts a user replies with.
Texts ==
    { Address,
      Address \o <<" ", "x">>,
      <<"x", " ">> \o Address,
      <<"a", "b", ".", "c", "d">>,
      <<"a", "@", "b">>,
      <<" ">>,
      TenDigits,
      <<"(", "5", "5", "5", ")", " ", "1", "2", "3", "-", "4", "5", "6", "7">>,
      <<"5", "5", "5", "1", "2">>,
      TenDigits \o <<"8">>,
      [i \in 1..10 |-> UDigit],
      <<UDigit>> \o TenDigits }

\* The texts a user replies with to the username prompt.
UsernameTexts == {<<" ">>, <<" ", "x", " ">>}

----------------------------------------------------------------------------
(* The field conversations: /username, /email, /phone, the text reply,     *)
(* /clear and /cancel.  The three ConversationHandlers are registered in   *)
(* the order username, email, phone; an update goes to the first handler   *)
(* that accepts it.  A user talks to the bot in one chat.                  *)

ConversationNames == {"username", "email", "phone"}

\* One more update is taken by a ConversationHandler.
Conversed ==
    /\ inputs < MaxInputs
    /\ inputs' = inputs + 1

ConversationFrame == UNCHANGED <<processVars, engineVars, messages, log, commands>>

\* The conversation ends (ConversationHandler.END) or takes a state.
Ended(u, name) == [conversations EXCEPT ![u] = @ \ {name}]
Awaiting(u, name) == [conversations EXCEPT ![u] = @ \cup {name}]

\* The registration test and the prompt that follows it: without an entry
\* the entry point returns ConversationHandler.END, with one it returns the
\* state that awaits the reply.
prompt_for(u, name) ==
    LET user_id == StrOfInt(u) IN
    /\ Conversed
    /\ ConversationFrame
    /\ StoreUnchanged
    /\ IF ~DictHas(user_data_dict, user_id)
       THEN /\ reply' = Reply(user_id, name, "register_first")
            /\ conversations' = Ended(u, name)
       ELSE /\ reply' = Reply(user_id, name, "prompt")
            /\ conversations' = Awaiting(u, name)

\* /username.  An entry point takes its command only while its conversation
\* holds no state.
change_username(u) ==
    /\ "username" \notin conversations[u]
    /\ UNCHANGED field_to_clear
    /\ prompt_for(u, "username")

\* /email
change_email(u) ==
    /\ "email" \notin conversations[u]
    /\ field_to_clear' = [field_to_clear EXCEPT ![u] = PyStr("email")]
    /\ prompt_for(u, "email")

\* /phone
change_phone(u) ==
    /\ "phone" \notin conversations[u]
    /\ field_to_clear' = [field_to_clear EXCEPT ![u] = PyStr("phone")]
    /\ prompt_for(u, "phone")

\* The conversation that takes a text message: the first that awaits one.
TextHandler(u) ==
    IF "username" \in conversations[u] THEN "username"
    ELSE IF "email" \in conversations[u] THEN "email"
    ELSE IF "phone" \in conversations[u] THEN "phone"
    ELSE "none"

\* The conversation whose fallbacks take /clear: email or phone.
ClearHandler(u) ==
    IF "email" \in conversations[u] THEN "email"
    ELSE IF "phone" \in conversations[u] THEN "phone"
    ELSE "none"

\* commit writing a new record that holds the field and the defaults of
\* /start for active and status_message_id.
commit_fresh_record(u, field, value, cmd, kind, convs) ==
    LET user_id == StrOfInt(u)
        record == [DictGet(user_data_dict, user_id) EXCEPT
                     ![field] = value, !.active = PyBool(FALSE),
                     !.status_message_id = None]
    IN
    \E outcome \in WriteOutcomes :
      /\ CanWrite(outcome)
      /\ update_user_data(DictSet(user_data_dict, user_id, record), user_id,
                          outcome)
      /\ reply' = Reply(user_id, cmd, kind)
      /\ conversations' = convs

\* user_data_dict[user_id][field] = value; save
commit(u, field, value, cmd, kind, convs) ==
    LET user_id == StrOfInt(u) IN
    \E outcome \in WriteOutcomes :
      /\ CanWrite(outcome)
      /\ update_user_data(DictSetField(user_data_dict, user_id, field, value),
                          user_id, outcome)
      /\ reply' = Reply(user_id, cmd, kind)
      /\ conversations' = convs

\* reject returning ConversationHandler.END: every conversation of the user
\* that awaited the reply is over.
reject_ending(u, cmd, convs) ==
    /\ StoreUnchanged
    /\ reply' = Reply(StrOfInt(u), cmd, "rejected")
    /\ conversations' = [convs EXCEPT ![u] = {}]

\* "return 'get_...'" after the re-prompt: nothing is stored and the
\* conversation keeps its state.
reject(u, cmd, convs) ==
    /\ StoreUnchanged
    /\ reply' = Reply(StrOfInt(u), cmd, "rejected")
    /\ conversations' = convs

get_username(u, t) ==
    /\ TextHandler(u) = "username"
    /\ Conversed
    /\ ConversationFrame
    /\ UNCHANGED field_to_clear
    /\ LET new_username == strip(t) IN
       IF new_username = << >>
       THEN reject(u, "get_username", conversations)
       ELSE commit(u, "username", PyStr(Join(new_username)), "get_username",
                   "saved", Ended(u, "username"))

\* "if not re.match(EMAIL_REGEX, new_email)" negated
email_is_valid(new_email) == EMAIL_REGEX_match(new_email)

get_email(u, t) ==
    /\ TextHandler(u) = "email"
    /\ Conversed
    /\ ConversationFrame
    /\ UNCHANGED field_to_clear
    /\ LET new_email == strip(t) IN
       IF ~email_is_valid(new_email)
       THEN reject(u, "get_email", conversations)
       ELSE commit(u, "email", PyStr(Join(new_email)), "get_email", "saved",
                   Ended(u, "email"))

get_phone(u, t) ==
    /\ TextHandler(u) = "phone"
    /\ Conversed
    /\ ConversationFrame
    /\ UNCHANGED field_to_clear
    /\ LET new_phone == remove_non_digits(strip(t)) IN
       IF ~PHONE_REGEX_match(new_phone)
       THEN reject(u, "get_phone", conversations)
       ELSE commit(u, "phone", PyStr(Join(new_phone)), "get_phone", "saved",
                   Ended(u, "phone"))

\* /clear, taken by the fallbacks of the email or the phone conversation
clear(u) ==
    /\ ClearHandler(u) # "none"
    /\ Conversed
    /\ ConversationFrame
    /\ UNCHANGED field_to_clear
    /\ IF Truthy(field_to_clear[u])
       THEN commit(u, field_to_clear[u][2], None, "clear", "cleared",
                   Ended(u, ClearHandler(u)))
       ELSE /\ StoreUnchanged
            /\ reply' = Reply(StrOfInt(u), "clear", "no_field")
            /\ conversations' = Ended(u, ClearHandler(u))

\* cancel returning the state it was called in instead of ConversationHandler.END.
cancel_without_end(u) ==
    /\ TextHandler(u) # "none"
    /\ Conversed
    /\ ConversationFrame
    /\ StoreUnchanged
    /\ UNCHANGED <<field_to_clear, conversations>>
    /\ reply' = Reply(StrOfInt(u), "cancel", "cancelled")

\* /cancel, taken by the fallbacks of the first conversation that holds a state
cancel(u) ==
    /\ TextHandler(u) # "none"
    /\ Conversed
    /\ ConversationFrame
    /\ StoreUnchanged
    /\ UNCHANGED field_to_clear
    /\ reply' = Reply(StrOfInt(u), "cancel", "cancelled")
    /\ conversations' = Ended(u, TextHandler(u))

\* The bot with every command of a user, between poll cycles.
NextProfile ==
    \/ \E u \in UserIds, c \in ChatIds : start(u, c)
    \/ \E u \in UserIds : activate(u)
    \/ \E u \in UserIds : deactivate(u)
    \/ \E u \in UserIds : repost(u)
    \/ \E u \in UserIds : change_username(u)
    \/ \E u \in UserIds : change_email(u)
    \/ \E u \in UserIds : change_phone(u)
    \/ \E u \in UserIds, t \in UsernameTexts : get_username(u, t)
    \/ \E u \in UserIds, t \in Texts : get_email(u, t)
    \/ \E u \in UserIds, t \in Texts : get_phone(u, t)
    \/ \E u \in UserIds : clear(u)
    \/ \E u \in UserIds : cancel(u)

SpecProfile == Init /\ [][NextProfile]_vars

\* The field conversations alone, with /start for a user who has no entry.
NextConversation ==
    \/ \E u \in UserIds, c \in ChatIds : start(u, c)
    \/ \E u \in UserIds : change_username(u)
    \/ \E u \in UserIds : change_email(u)
    \/ \E u \in UserIds : change_phone(u)
    \/ \E u \in UserIds, t \in UsernameTexts : get_username(u, t)
    \/ \E u \in UserIds, t \in Texts : get_email(u, t)
    \/ \E u \in UserIds, t \in Texts : get_phone(u, t)
    \/ \E u \in UserIds : clear(u)
    \/ \E u \in UserIds : cancel(u)

SpecConversation == Init /\ [][NextConversation]_vars

----------------------------------------------------------------------------
(* Startup: the store is loaded (bot.py:34, main.py:29), then the          *)
(* credentials are fetched (bot.py:717, main.py:36); only then are the     *)
(* handlers registered and the first poll cycle scheduled.                 *)

\* all(env_vars.values()) with only the bot token looked at.
all_set_token_only(e) == "TELEGRAM_BOT_TOKEN" \in e

\* all(env_vars.values()): every key has a non-empty value.  e is the set of
\* keys that have one.
all_set(e) == \A key \in Credentials : key \in e

InitStartup ==
    /\ impl \in Impls
    /\ file \in InitFiles
    /\ env \in SUBSET Credentials
    /\ process = "starting"
    /\ user_data_dict = EmptyDict
    /\ initial_job_found_time = None
    /\ clock = 0
    /\ cycle = 0
    /\ probe = "none"
    /\ pc = "idle"
    /\ message_text = << >>
    /\ pos = 0
    /\ iterSize = 0
    /\ pending = NoPending
    /\ ended = "none"
    /\ timer = "armed"
    /\ messages = IF file.state = "doc" THEN PriorMessages ELSE << >>
    /\ log = << >>
    /\ visits = << >>
    /\ reply = NoReply
    /\ last = NoPut
    /\ writeFailures = 0
    /\ commands = 0
    /\ conversations = NoConversations
    /\ field_to_clear = NoFieldToClear
    /\ inputs = 0
    /\ runs = 1
    /\ failures = {}

StartupFrame ==
    UNCHANGED <<impl, env, runs, file, conversationVars, engineVars, messages, log,
                reply, last, writeFailures, commands>>

\* user_data_dict = load_from_json('user_data.json') / UserDataManager(...)
load_from_json ==
    /\ process = "starting"
    /\ user_data_dict' = load_data(file)
    /\ process' = "loaded"
    /\ StartupFrame

\* fetch_environment_variables: sys.exit(1) unless every key is set.
\* SystemExit is not an Exception, so the "except Exception" of main does not
\* catch it.
fetch_environment_variables ==
    /\ process = "loaded"
    /\ process' = IF all_set(env) THEN "running" ELSE "exited"
    /\ UNCHANGED user_data_dict
    /\ StartupFrame

\* The handlers and the poll cycle of the running process.
running == process = "running" /\ Next

NextStartup ==
    \/ load_from_json
    \/ fetch_environment_variables
    \/ running

SpecStartup == InitStartup /\ [][NextStartup]_vars

----------------------------------------------------------------------------
(* Every operation that writes the store, together: the commands, the      *)
(* field conversations with replies that are committed, and not-found poll *)
(* cycles, for one acting user.                                            *)

\* The user who acts; the other subscriber's entry stays as loaded.
StoreUsers == {2}

NextStore ==
    \/ \E u \in StoreUsers, c \in {102} : start(u, c)
    \/ \E u \in StoreUsers : activate(u)
    \/ \E u \in StoreUsers : deactivate(u)
    \/ \E u \in StoreUsers : repost(u)
    \/ \E u \in StoreUsers : change_username(u)
    \/ \E u \in StoreUsers : change_email(u)
    \/ \E u \in StoreUsers : change_phone(u)
    \/ \E u \in StoreUsers, t \in {<<" ", "x", " ">>} : get_username(u, t)
    \/ \E u \in StoreUsers, t \in {Address} : get_email(u, t)
    \/ \E u \in StoreUsers, t \in {TenDigits} : get_phone(u, t)
    \/ \E u \in StoreUsers : clear(u)
    \/ \E r \in {"notfound"} : timer_tick(r)
    \/ \E ok \in BOOLEAN : send_update_return(ok)

SpecStore == Init /\ [][NextStore]_vars

----------------------------------------------------------------------------
(* Restart: the process ends and is started again.  What the module-level  *)
(* statements and the constructors set up is back at its initial value;    *)
(* the file, the chats and the clock are as the last run left them.        *)

MaxRuns == 2

\* The message a transport call in flight creates if it got through.
InFlight ==
    IF pc = "await" /\ pending.branch # "edit"
    THEN {messages, Append(messages, [chat_id |-> pending.chat_id,
                                      found |-> job_found(message_text)])}
    ELSE {messages}

\* The running process ends at any point and a new one starts, with the
\* credentials still set: the store is read again from the file, bot.py:29-31
\* and Helper.__init__ set initial_job_found_time to None, no
\* ConversationHandler holds a state, context.user_data is empty, and no
\* cycle has begun.
restart ==
    /\ process = "running"
    /\ all_set(env)
    /\ runs < MaxRuns
    /\ runs' = runs + 1
    /\ user_data_dict' = load_data(file)
    /\ initial_job_found_time' = None
    /\ cycle' = 0
    /\ probe' = "none"
    /\ pc' = "idle"
    /\ message_text' = << >>
    /\ pos' = 0
    /\ iterSize' = 0
    /\ pending' = NoPending
    /\ ended' = "none"
    /\ timer' = "armed"
    /\ log' = << >>
    /\ visits' = << >>
    /\ failures' = {}
    /\ reply' = NoReply
    /\ last' = NoPut
    /\ conversations' = NoConversations
    /\ field_to_clear' = NoFieldToClear
    /\ messages' \in InFlight
    /\ UNCHANGED <<impl, process, env, file, clock, writeFailures, commands,
                   inputs>>

\* The commands are those of one user; the poll cycle is whole.  clock counts
\* the cycles of all runs together, and they are capped together.
NextRestart ==
    \/ restart
    \/ \E u \in StoreUsers, c \in {102} : start(u, c)
    \/ \E u \in StoreUsers : activate(u)
    \/ \E u \in StoreUsers : deactivate(u)
    \/ \E u \in StoreUsers : repost(u)
    \/ \E r \in ProbeResults : clock < MaxCycles /\ timer_tick(r)
    \/ \E ok \in BOOLEAN : send_update_return(ok)

SpecRestart == Init /\ [][NextRestart]_vars

----------------------------------------------------------------------------
(* Properties *)

\* The calls of the current cycle's fan-out addressed to the subscriber key.
EngineCalls(key) == {i \in DOMAIN log : log[i].cycle = cycle /\ log[i].key = key}

\* An entry the loop body would serve: active, with a chat destination.
Eligible(v) == Truthy(v.active) /\ ~IsNone(v.chat_id)

\* C1: a subscriber whose active flag is false when the fan-out reaches it
\* gets no send, edit or copy from the engine in that cycle, whatever the
\* probe result and whatever handle it has stored; the engine addresses its
\* calls only to entries it read as active, and never copies.
C1_InactiveNotContacted ==
    /\ \A j \in DOMAIN visits :
         ~Truthy(visits[j].active) =>
            /\ visits[j].action \in {"skip", "unreached"}
            /\ EngineCalls(visits[j].key) = {}
    /\ \A i \in DOMAIN log :
         log[i].cycle > 0 => log[i].op \in {"send", "edit"} /\ Truthy(log[i].active)

\* C1 witness: a completed fan-out that served one subscriber and passed
\* over an inactive one that has a stored handle.
C1_Witness ==
    /\ ended = "completed"
    /\ \E j \in DOMAIN visits :
         /\ ~Truthy(visits[j].active)
         /\ ~IsNone(visits[j].status_message_id)
         /\ visits[j].action = "skip"
    /\ \E i \in DOMAIN log : log[i].cycle > 0

\* C2: in a cycle whose probe reported not found, every active subscriber
\* with a stored status_message_id gets exactly one call, an edit addressed
\* to that stored id, and no send.
C2_NotFoundStoredHandleEdited ==
    probe = "notfound" =>
      \A j \in DOMAIN visits :
        (Eligible(visits[j]) /\ ~IsNone(visits[j].status_message_id)) =>
           /\ Cardinality(EngineCalls(visits[j].key)) = 1
           /\ \A i \in EngineCalls(visits[j].key) :
                /\ log[i].op = "edit"
                /\ log[i].message_id = visits[j].status_message_id

\* C3: in a cycle whose probe reported not found, every active subscriber
\* with no stored status_message_id gets exactly one call, a send, and when
\* the send returns the id of the new message is the subscriber's
\* status_message_id in the store.
C3_NotFoundNoHandleSendStored ==
    /\ [](probe = "notfound" =>
            \A j \in DOMAIN visits :
              (Eligible(visits[j]) /\ IsNone(visits[j].status_message_id)) =>
                 /\ Cardinality(EngineCalls(visits[j].key)) = 1
                 /\ \A i \in EngineCalls(visits[j].key) : log[i].op = "send")
    /\ [][(/\ probe = "notfound"
           /\ pc = "await"
           /\ pending.branch = "send"
           /\ log'[PendingIndex].result = "ok")
          => DictGet(user_data_dict', pending.key).status_message_id
                = log'[PendingIndex].ret]_vars

\* C4: in a cycle whose probe reported found, every active subscriber with a
\* chat destination gets exactly one call, a send, whether or not it has a
\* stored status_message_id.
C4_FoundAlwaysSend ==
    probe = "found" =>
      \A j \in DOMAIN visits :
        Eligible(visits[j]) =>
           /\ Cardinality(EngineCalls(visits[j].key)) = 1
           /\ \A i \in EngineCalls(visits[j].key) : log[i].op = "send"

\* C5: when the probe fails, the cycle issues no send and no edit and the
\* engine changes neither the in-memory store nor the durable file.
C5_ProbeFailureIsNoOp ==
    /\ [](probe = "error" => \A i \in DOMAIN log : log[i].cycle = 0)
    /\ [][(probe = "error" /\ pc = "await" /\ log'[PendingIndex].result # "pending")
          => UNCHANGED <<user_data_dict, file>>]_vars

\* C6: when a transport call of the fan-out fails, every active subscriber
\* with a chat destination that comes later in the iteration is still served
\* in that cycle.
C6_TransportFailureIsolated ==
    (\E i \in DOMAIN log : log[i].cycle > 0 /\ log[i].result = "error") =>
       \A j \in DOMAIN visits :
          visits[j].action = "unreached" => ~Eligible(visits[j])

\* The scenario's subscriber: the only entry of the store, active before the
\* first tick.
ScenarioReady ==
    /\ Len(user_data_dict) = 1
    /\ Truthy(user_data_dict[1].v.active)

TickOver(n) == cycle = n /\ pc = "idle"

\* C7: fresh store, one subscriber registered and activated, probe sequence
\* not found, not found, found: tick 1 sends a new message M1 and stores its
\* id, tick 2 edits M1, tick 3 sends a new message M2 whose text carries the
\* first-found time and the current check time.
C7_ThreeTickScenario ==
    ScenarioReady =>
      /\ TickOver(1) =>
           /\ Len(log) = 1
           /\ log[1].op = "send" /\ log[1].result = "ok" /\ log[1].ret = PyInt(1)
           /\ user_data_dict[1].v.status_message_id = PyInt(1)
           /\ Len(messages) = 1 /\ ~messages[1].found
      /\ TickOver(2) =>
           /\ Len(log) = 1
           /\ log[1].op = "edit" /\ log[1].result = "ok"
           /\ log[1].message_id = PyInt(1)
           /\ Len(messages) = 1
      /\ TickOver(3) =>
           /\ Len(log) = 1
           /\ log[1].op = "send" /\ log[1].result = "ok" /\ log[1].ret = PyInt(2)
           /\ log[1].text = FoundText(strftime(3), strftime(3))
           /\ Len(messages) = 2 /\ messages[2].found

\* C8: a /start for an id that already has an entry leaves the store as it
\* was: no entry is added and no field of any entry changes.
C8_StartIdempotent ==
    [][(/\ commands' = commands + 1
        /\ reply'.cmd = "start"
        /\ DictHas(user_data_dict, reply'.to))
       => user_data_dict' = user_data_dict]_vars

\* C8 witness: /start was handled for a subscriber that is active and has an
\* email and a phone.
C8_Witness ==
    /\ reply.cmd = "start"
    /\ reply.kind = "type_deactivate"
    /\ ~IsNone(DictGet(user_data_dict, reply.to).email)
    /\ ~IsNone(DictGet(user_data_dict, reply.to).phone)

\* C9: after a put whose durable write succeeded, loading the file yields
\* for that id a record equal in every field to the one written.
C9_RoundTrip ==
    (last.op = "put" /\ last.outcome = "ok") =>
       /\ DictHas(load_data(file), last.key)
       /\ DictGet(load_data(file), last.key) = last.value

\* C9 witness: a put was written whose record holds a bool, ints and
\* strings, and the file holds the document written.
C9_Witness ==
    /\ last.op = "put"
    /\ last.outcome = "ok"
    /\ ~IsNone(last.value.status_message_id)
    /\ ~IsNone(last.value.email)
    /\ file.state = "doc"

\* C10: /repost by a registered subscriber with no status_message_id answers
\* "No status message to repost.", issues no copy and leaves the in-memory
\* store and the durable file unchanged.
C10_RepostWithoutStatusMessage ==
    [][(/\ commands' = commands + 1
        /\ reply'.cmd = "repost"
        /\ DictHas(user_data_dict, reply'.to)
        /\ IsNone(DictGet(user_data_dict, reply'.to).status_message_id))
       => /\ reply'.kind = "no_status_message"
          /\ UNCHANGED <<log, messages, user_data_dict, file>>]_vars

\* C10 witness: /repost was answered with "No status message to repost.".
C10_Witness ==
    /\ reply.cmd = "repost"
    /\ reply.kind = "no_status_message"

\* C11: a /repost by a registered subscriber with a stored status_message_id
\* issues one copy of the message with that id, and when the copy succeeds
\* the id of the new copy becomes the subscriber's status_message_id.
C11_RepostCopiesAndStores ==
    [][(/\ commands' = commands + 1
        /\ reply'.cmd = "repost"
        /\ DictHas(user_data_dict, reply'.to)
        /\ ~IsNone(DictGet(user_data_dict, reply'.to).status_message_id))
       => /\ Len(log') = Len(log) + 1
          /\ log'[Len(log')].op = "copy"
          /\ log'[Len(log')].key = reply'.to
          /\ log'[Len(log')].message_id
                = DictGet(user_data_dict, reply'.to).status_message_id
          /\ log'[Len(log')].result = "ok"
                => DictGet(user_data_dict', reply'.to).status_message_id
                      = log'[Len(log')].ret]_vars

\* The user whose dict key is user_id.
UserOf(user_id) == CHOOSE u \in UserIds : StrOfInt(u) = user_id

\* C12: for an id with no entry in the store, each of /activate,
\* /deactivate, /username, /email, /phone and /repost answers with the
\* register-first reply, leaves the in-memory store and the file unchanged,
\* and the three profile commands leave their conversation without a state.
C12_UnregisteredGetsRegisterFirst ==
    [][(/\ commands' = commands + 1 \/ inputs' = inputs + 1
        /\ reply'.cmd \in {"activate", "deactivate", "username", "email",
                           "phone", "repost"}
        /\ ~DictHas(user_data_dict, reply'.to))
       => /\ reply'.kind = "register_first"
          /\ UNCHANGED <<user_data_dict, file>>
          /\ reply'.cmd \notin conversations'[UserOf(reply'.to)]]_vars

\* C13: when the durable write of a put fails, the in-memory store holds the
\* new record, the file is left as the failed write left it (no retry), and
\* the calling operation goes on: a command handler does not answer with its
\* error reply and the fan-out goes on to the next entry.
C13_WriteFailureKeepsMemory ==
    [][(writeFailures' = writeFailures + 1)
       => /\ last'.op = "put"
          /\ last'.outcome # "ok"
          /\ user_data_dict' # user_data_dict
          /\ DictHas(user_data_dict', last'.key)
          /\ DictGet(user_data_dict', last'.key) = last'.value
          /\ file' \in {file, FileMalformed}
          /\ commands' = commands + 1 => reply'.kind # "error"
          /\ pc = "await" =>
               /\ ended' # "aborted"
               /\ ended' = "raised" => Len(user_data_dict) # iterSize]_vars

\* C13 witness: the write of an /activate failed; the subscriber is active
\* in memory, the file does not say so, and the handler answered
\* "Activated!".
C13_Witness ==
    /\ last.op = "put"
    /\ last.outcome = "write_failed"
    /\ reply.kind = "activated"
    /\ last.key = reply.to
    /\ Truthy(DictGet(user_data_dict, last.key).active)
    /\ file = FileMalformed

C18_MissingCredentialExits ==
    Credentials \ env # {} =>
       /\ process \in {"starting", "loaded", "exited"}
       /\ cycle = 0
       /\ probe = "none"
       /\ pc = "idle"
       /\ log = << >>
       /\ commands = 0

\* C18 witness: the bot token is set, an upstream credential is not, and the
\* process has exited.
C18_Witness ==
    /\ process = "exited"
    /\ "TELEGRAM_BOT_TOKEN" \in env
    /\ "USAJOBS_AUTHORIZATION_KEY" \notin env

\* C15: whenever the last mutating operation (registration, activate,
\* deactivate, field commit, clear, repost, the engine's write-back) wrote
\* the file successfully, the document in the file is the whole in-memory
\* store: loading it gives every subscriber with every field.
C15_WholeStoreWritten ==
    (last.op = "put" /\ last.outcome = "ok") =>
       /\ file.state = "doc"
       /\ load_data(file) = user_data_dict

\* C15 witness: two subscribers; one write failed earlier and a later one
\* succeeded; the second subscriber has a handle from the engine and an
\* email from a field commit.
C15_Witness ==
    /\ last.op = "put"
    /\ last.outcome = "ok"
    /\ writeFailures = 1
    /\ Len(user_data_dict) = 2
    /\ ~IsNone(user_data_dict[2].v.status_message_id)
    /\ ~IsNone(user_data_dict[2].v.email)

\* C16: a phone reply is committed if and only if exactly 10 digits remain
\* after every non-digit character is removed; the value stored is that
\* digits-only string; any other reply is rejected and the store and the
\* file are unchanged.
C16_PhoneTenDigits ==
    [][\A u \in UserIds, t \in Texts :
         get_phone(u, t) =>
            LET digits == SelectSeq(t, IsDecimalDigit) IN
            IF Len(digits) = 10
            THEN /\ reply'.kind = "saved"
                 /\ DictGet(user_data_dict', StrOfInt(u)).phone = PyStr(Join(digits))
            ELSE /\ reply'.kind = "rejected"
                 /\ UNCHANGED <<user_data_dict, file>>]_vars

\* C17: an email reply is committed only if the reply, without the white
\* space around it, is an address local@domain.tld; any other reply (no "@",
\* no dot in the domain, text around an address) is rejected and the store
\* and the file are unchanged.
C17_EmailPatternOnly ==
    [][\A u \in UserIds, t \in Texts :
         (get_email(u, t) /\ ~EmailPattern(strip(t)))
            => /\ reply'.kind = "rejected"
               /\ UNCHANGED <<user_data_dict, file>>]_vars

----------------------------------------------------------------------------
\* C19: the poll loop never stops while the process runs.  Whenever a poll
\* cycle is over, however it ended (probe failure, transport failure for a
\* subscriber, or an error raised during the fan-out), the timer is armed
\* again, and the next cycle eventually begins with a fresh probe (cycles
\* are counted up to MaxCycles).
C19_PollLoopNeverStops ==
    /\ []((pc = "idle" /\ cycle > 0) => timer = "armed")
    /\ \A n \in 1..(MaxCycles - 1) :
         (cycle = n /\ pc = "idle") ~> (cycle = n + 1)

----------------------------------------------------------------------------
\* C20: a /clear taken by the email conversation while it awaits input sets
\* the subscriber's email to None, one taken by the phone conversation sets
\* phone to None; no other field of the record changes and the conversation
\* that took the /clear ends, whatever /email and /phone commands came before.
C20_ClearNullsItsField ==
    [][\A u \in UserIds :
         clear(u) =>
            LET handler == ClearHandler(u)
                before == DictGet(user_data_dict, StrOfInt(u))
                after == DictGet(user_data_dict', StrOfInt(u))
            IN /\ after[handler] = None
               /\ \A f \in Fields \ {handler} : after[f] = before[f]
               /\ handler \notin conversations'[u]]_vars

----------------------------------------------------------------------------
\* C21: a /cancel taken by a field conversation (username, email or phone)
\* ends that conversation and changes neither the in-memory store nor the
\* file.
C21_CancelEndsWithoutMutation ==
    [][\A u \in UserIds :
         cancel(u) =>
            /\ TextHandler(u) \in ConversationNames
            /\ conversations'[u] = conversations[u] \ {TextHandler(u)}
            /\ UNCHANGED <<user_data_dict, file>>]_vars

\* A /cancel has ended a conversation of a subscriber who has a record.
C21_Witness ==
    /\ reply.kind = "cancelled"
    /\ DictHas(user_data_dict, reply.to)
    /\ conversations[UserOf(reply.to)] = {}

----------------------------------------------------------------------------
\* C22: delivery state survives a restart.  A restart gives every subscriber
\* the status_message_id that the file holds for it, and in the first poll
\* cycle after a restart, when the probe reports not found, every active
\* subscriber with a stored status_message_id gets exactly one call, an edit
\* of that message, and no second status message is sent.
C22_HandleSurvivesRestart ==
    /\ [][(restart /\ file.state = "doc") =>
            \A i \in DOMAIN file.doc :
               DictGet(user_data_dict', file.doc[i].k).status_message_id
                  = JsonDec(file.doc[i].v.status_message_id)]_vars
    /\ []((runs > 1 /\ cycle = 1 /\ probe = "notfound") =>
            \A j \in DOMAIN visits :
              (Eligible(visits[j]) /\ ~IsNone(visits[j].status_message_id)) =>
                 /\ Cardinality(EngineCalls(visits[j].key)) = 1
                 /\ \A i \in EngineCalls(visits[j].key) :
                      /\ log[i].op = "edit"
                      /\ log[i].message_id = visits[j].status_message_id)

----------------------------------------------------------------------------
\* C23: a rejected reply in a field conversation leaves the conversation in
\* the state that awaits the same field and leaves the in-memory store and
\* the file unchanged, so that any number of rejected replies can follow one
\* another.  A username reply that is empty after strip(), an email reply
\* that EMAIL_REGEX does not match and a phone reply whose digits are not 10
\* in number are rejected.
C23_RejectedReplyKeepsState ==
    [][\A u \in UserIds :
         (inputs' # inputs /\ reply'.to = StrOfInt(u)) =>
            /\ \A t \in UsernameTexts :
                 (reply'.cmd = "get_username" /\ strip(t) = << >>
                     /\ get_username(u, t))
                    => reply'.kind = "rejected"
            /\ \A t \in Texts :
                 /\ (reply'.cmd = "get_email" /\ ~EMAIL_REGEX_match(strip(t))
                        /\ get_email(u, t))
                       => reply'.kind = "rejected"
                 /\ (reply'.cmd = "get_phone"
                        /\ Len(SelectSeq(t, IsDecimalDigit)) # 10
                        /\ get_phone(u, t))
                       => reply'.kind = "rejected"
            /\ (reply'.kind = "rejected"
                  /\ reply'.cmd \in {"get_username", "get_email", "get_phone"})
                 => /\ UNCHANGED <<user_data_dict, file, conversations>>
                    /\ TextHandler(u)' = TextHandler(u)]_vars

\* A reply was rejected after two earlier updates of the conversations, and
\* the conversation that rejected it still awaits a reply.
C23_Witness ==
    /\ reply.kind = "rejected"
    /\ inputs >= 3
    /\ TextHandler(UserOf(reply.to)) # "none"
    /\ reply.cmd = "get_" \o TextHandler(UserOf(reply.to))

----------------------------------------------------------------------------
\* C24: a reply that a field conversation accepts sets exactly that field of
\* the replying subscriber's record to the validated value (the stripped
\* text for username and email, the digits for phone) and ends the
\* conversation; every other field of the record, active and
\* status_message_id among them, and every other record are unchanged.
C24_ValidReplySetsOneField ==
    [][\A u \in UserIds :
         (inputs' # inputs /\ reply'.to = StrOfInt(u) /\ reply'.kind = "saved") =>
            LET field == TextHandler(u)
                before == DictGet(user_data_dict, StrOfInt(u))
                after == DictGet(user_data_dict', StrOfInt(u))
            IN /\ reply'.cmd = "get_" \o field
               /\ \A t \in UsernameTexts :
                    get_username(u, t) => after.username = PyStr(Join(strip(t)))
               /\ \A t \in Texts :
                    /\ get_email(u, t) => after.email = PyStr(Join(strip(t)))
                    /\ get_phone(u, t) =>
                          after.phone = PyStr(Join(SelectSeq(t, IsDecimalDigit)))
               /\ \A f \in Fields \ {field} : after[f] = before[f]
               /\ Len(user_data_dict') = Len(user_data_dict)
               /\ \A i \in DOMAIN user_data_dict :
                    user_data_dict[i].k # StrOfInt(u)
                       => user_data_dict'[i] = user_data_dict[i]
               /\ conversations' = Ended(u, field)]_vars

\* The second subscriber, active, replied with a phone number: the digits are
\* its phone and the first subscriber's record is in the store beside it.
C24_Witness ==
    /\ reply = Reply("2", "get_phone", "saved")
    /\ Len(user_data_dict) = 2
    /\ DictGet(user_data_dict, "2").phone = PyStr("5551234567")
    /\ Truthy(DictGet(user_data_dict, "2").active)
    /\ "phone" \notin conversations[2]

----------------------------------------------------------------------------
\* C25: within a poll cycle the engine changes the store only by setting the
\* status_message_id of the subscriber it has just sent a new status message
\* to, in a not-found cycle, for an entry read without a handle.  The found
\* branch and the edit branch leave the in-memory store and the file
\* unchanged, and no step of the engine changes active, username, email,
\* phone, chat_id or user_id of any record, or adds or removes a record.
C25_EngineWritesOnlyHandle ==
    [][(/\ commands' = commands
        /\ \/ \E r \in ProbeResults : timer_tick(r)
           \/ \E ok \in BOOLEAN : send_update_return(ok))
       => /\ Len(user_data_dict') = Len(user_data_dict)
          /\ \A i \in DOMAIN user_data_dict :
               /\ user_data_dict'[i].k = user_data_dict[i].k
               /\ \A f \in Fields \ {"status_message_id"} :
                    user_data_dict'[i].v[f] = user_data_dict[i].v[f]
               /\ user_data_dict'[i].v.status_message_id
                     # user_data_dict[i].v.status_message_id
                  => /\ pc = "await"
                     /\ pending.branch = "send"
                     /\ pending.key = user_data_dict[i].k
                     /\ ~job_found(message_text)
                     /\ log'[PendingIndex].result = "ok"
          /\ (pc = "idle" \/ pending.branch \in {"found", "edit"})
                => UNCHANGED <<user_data_dict, file>>]_vars

\* A not-found cycle has edited one subscriber's status message and sent a
\* new one to another, whose id is now that subscriber's status_message_id.
C25_Witness ==
    /\ probe = "notfound"
    /\ \E i \in DOMAIN log :
         /\ log[i].cycle = cycle /\ cycle > 0
         /\ log[i].op = "edit" /\ log[i].result = "ok"
    /\ \E i \in DOMAIN log :
         /\ log[i].cycle = cycle
         /\ log[i].op = "send" /\ log[i].result = "ok"
         /\ DictGet(user_data_dict, log[i].key).status_message_id = log[i].ret

----------------------------------------------------------------------------
\* C26: when the send or edit for a subscriber fails in a cycle, the store is
\* as it was before the call (an absent status_message_id stays absent, a
\* stored one stays the same), the engine issues no second call to that
\* subscriber in that cycle, and the next cycle with the same kind of
\* message issues the same operation again to that subscriber if it is
\* still active.
C26_FailedCallRetriedNextCycle ==
    /\ [][(/\ pc = "await"
           /\ commands' = commands
           /\ \E ok \in BOOLEAN : send_update_return(ok)
           /\ log'[PendingIndex].result = "error")
          => UNCHANGED <<user_data_dict, file>>]_vars
    /\ [](\A i \in DOMAIN log :
            (log[i].cycle = cycle /\ cycle > 0 /\ log[i].result = "error")
               => Cardinality(EngineCalls(log[i].key)) = 1)
    /\ [](pc = "idle" =>
            \A f \in failures :
              f.found = (probe = "found") =>
                 \A j \in DOMAIN visits :
                    (visits[j].key = f.key /\ Eligible(visits[j])) =>
                       \E i \in EngineCalls(f.key) : log[i].op = f.op)

----------------------------------------------------------------------------
\* C27: poll cycles never overlap.  The probe of a cycle begins only when the
\* fan-out of the cycle before it is over, with every transport call it
\* issued completed or failed, and at any time the calls in flight are at
\* most one call of the current cycle's fan-out.
C27_CyclesDoNotOverlap ==
    /\ [][cycle' = cycle + 1 =>
            /\ pc = "idle"
            /\ ended # "running"
            /\ pending = NoPending
            /\ \A i \in DOMAIN log : log[i].result # "pending"]_vars
    /\ [](/\ Cardinality({i \in DOMAIN log : log[i].result = "pending"})
               = IF pc = "await" THEN 1 ELSE 0
          /\ \A i \in DOMAIN log :
               log[i].result = "pending" => log[i].cycle = cycle
          /\ pc = "await" <=> ended = "running")

\* The second cycle is in its fan-out, waiting on the call for the second
\* subscriber, after a first cycle in which a call failed.
C27_Witness ==
    /\ cycle = 2
    /\ pc = "await"
    /\ pending.key = "2"
    /\ Len(visits) = 2
    /\ failures # {}

----------------------------------------------------------------------------
\* C28: the first-found time is set in the first cycle whose probe reports
\* found, to the time of that cycle, and never changes afterwards within the
\* process run, whatever the probe reports later; every found message sent
\* in the run carries that value as its first-found time.
C28_FirstFoundTimeSetOnce ==
    /\ [][(cycle' = cycle + 1 /\ probe' = "found" /\ IsNone(initial_job_found_time))
          => initial_job_found_time' = PyStr(strftime(clock'))]_vars
    /\ [][(runs' = runs /\ ~IsNone(initial_job_found_time))
          => UNCHANGED initial_job_found_time]_vars
    /\ [][(cycle' = cycle + 1 /\ probe' # "found")
          => UNCHANGED initial_job_found_time]_vars
    /\ [](\A i \in DOMAIN log :
            job_found(log[i].text)
               => /\ ~IsNone(initial_job_found_time)
                  /\ log[i].text = FoundText(initial_job_found_time[2],
                                             strftime(clock)))

----------------------------------------------------------------------------
\* C29: the first-found time is not part of the durable store.  The file
\* holds the subscribers' fields and nothing else, a restart leaves the
\* first-found time unset, and the first cycle after a restart whose probe
\* reports found records the time of that cycle as the new first-found time.
C29_FirstFoundTimeNotDurable ==
    /\ [](file.state = "doc" =>
            \A i \in DOMAIN file.doc : DOMAIN file.doc[i].v = Fields)
    /\ [][restart => IsNone(initial_job_found_time')]_vars
    /\ [][(/\ runs > 1
           /\ cycle' = cycle + 1
           /\ probe' = "found"
           /\ IsNone(initial_job_found_time))
          => initial_job_found_time' = PyStr(strftime(clock'))]_vars

----------------------------------------------------------------------------
\* C30: the record created by the first /start of an id has active false,
\* email, phone and status_message_id absent, and the chat of that /start as
\* chat_id; an inactive record becomes active only through an /activate of
\* its owner, and the poll cycle issues a call only for a record that is
\* active in the store, so a new subscriber gets no poll-cycle traffic before
\* its /activate.
C30_NewSubscriberInactive ==
    /\ [][\A u \in UserIds, c \in ChatIds :
            (/\ commands' = commands + 1
             /\ reply'.cmd = "start"
             /\ ~DictHas(user_data_dict, StrOfInt(u))
             /\ DictHas(user_data_dict', StrOfInt(u))
             /\ start(u, c))
            => LET v == DictGet(user_data_dict', StrOfInt(u)) IN
               /\ v.active = PyBool(FALSE)
               /\ IsNone(v.email)
               /\ IsNone(v.phone)
               /\ IsNone(v.status_message_id)
               /\ v.chat_id = PyInt(c)]_vars
    /\ [][\A k \in DictKeys(user_data_dict) :
            (/\ DictHas(user_data_dict', k)
             /\ ~Truthy(DictGet(user_data_dict, k).active)
             /\ Truthy(DictGet(user_data_dict', k).active))
            => /\ commands' = commands + 1
               /\ reply'.cmd = "activate"
               /\ reply'.to = k]_vars
    /\ [][(pending' # pending /\ pending'.branch # "none")
          => /\ DictHas(user_data_dict', pending'.key)
             /\ Truthy(DictGet(user_data_dict', pending'.key).active)]_vars

\* C30 witness: a subscriber registered by /start, still inactive and without
\* email, phone or handle, was passed over by a completed fan-out that served
\* another subscriber.
C30_Witness ==
    /\ reply.cmd = "start"
    /\ reply.kind = "welcome"
    /\ ended = "completed"
    /\ DictHas(user_data_dict, reply.to)
    /\ DictGet(user_data_dict, reply.to).active = PyBool(FALSE)
    /\ IsNone(DictGet(user_data_dict, reply.to).status_message_id)
    /\ \E j \in DOMAIN visits : visits[j].key = reply.to /\ visits[j].action = "skip"
    /\ \E i \in DOMAIN log : log[i].cycle = cycle /\ log[i].key # reply.to

----------------------------------------------------------------------------
\* C31: no operation removes an entry from the store, and no operation
\* changes the user_id or the chat_id of an entry: every key of the store is
\* a key of the store after the step, with the same user_id and chat_id; the
\* user_id of an entry is the integer of its key.
C31_EntriesKeepIdAndChat ==
    /\ [][\A k \in DictKeys(user_data_dict) :
            /\ DictHas(user_data_dict', k)
            /\ DictGet(user_data_dict', k).user_id = DictGet(user_data_dict, k).user_id
            /\ DictGet(user_data_dict', k).chat_id = DictGet(user_data_dict, k).chat_id]_vars
    /\ [](\A k \in DictKeys(user_data_dict) :
            DictGet(user_data_dict, k).user_id = PyInt(IntOfStr(k)))

\* C31 witness: a subscriber registered in this run next to an older one has
\* since activated, saved an email and had a status message stored, and has
\* the chat of its /start.
C31_Witness ==
    /\ Len(user_data_dict) = 2
    /\ DictHas(user_data_dict, "2")
    /\ DictGet(user_data_dict, "2").username = PyStr("Black Cat")
    /\ DictGet(user_data_dict, "2").chat_id = PyInt(102)
    /\ Truthy(DictGet(user_data_dict, "2").active)
    /\ ~IsNone(DictGet(user_data_dict, "2").email)
    /\ ~IsNone(DictGet(user_data_dict, "2").status_message_id)

----------------------------------------------------------------------------
\* The message a stored handle names is one the transport holds and is not a
\* found message.
NamesNotFoundMessage(h) == MessageExists(h) /\ ~messages[h[2]].found

\* C32: the engine never edits a found message.  Every status_message_id in
\* the store and in the file names a message created by a not-found send or
\* by a copy of such a message, and every edit carries not-found text and is
\* addressed to such a message.
C32_FoundMessageNeverEdited ==
    /\ \A i \in DOMAIN user_data_dict :
         ~IsNone(user_data_dict[i].v.status_message_id)
            => NamesNotFoundMessage(user_data_dict[i].v.status_message_id)
    /\ \A i \in DOMAIN load_data(file) :
         ~IsNone(load_data(file)[i].v.status_message_id)
            => NamesNotFoundMessage(load_data(file)[i].v.status_message_id)
    /\ \A i \in DOMAIN log :
         log[i].op = "edit"
            => /\ ~job_found(log[i].text)
               /\ NamesNotFoundMessage(log[i].message_id)

\* C32 witness: found messages were sent, one of them to a subscriber whose
\* stored handle is the copy that /repost made of its not-found message.
C32_Witness ==
    \E i \in DOMAIN user_data_dict, j \in DOMAIN log, m \in DOMAIN messages :
      /\ messages[m].found
      /\ messages[m].chat_id = user_data_dict[i].v.chat_id
      /\ log[j].op = "copy"
      /\ log[j].result = "ok"
      /\ log[j].key = user_data_dict[i].k
      /\ log[j].ret = user_data_dict[i].v.status_message_id

----------------------------------------------------------------------------
\* A /deactivate of the subscriber was handled while the send addressed to
\* it was in flight: the fan-out read it as active and the store now holds
\* it as inactive.
DeactivatedInFlight ==
    /\ pc = "await"
    /\ pending.branch = "send"
    /\ visits[Len(visits)].key = pending.key
    /\ Truthy(visits[Len(visits)].active)
    /\ ~Truthy(DictGet(user_data_dict, pending.key).active)

\* The transport call in flight returns a message.
SendReturnsMessage ==
    /\ pc = "await"
    /\ pending' # pending
    /\ Len(messages') > Len(messages)

----------------------------------------------------------------------------
\* C34: no operation sets a stored status_message_id back to None.  A fresh
\* not-found send is issued only for a subscriber read without a handle, and
\* when it succeeds the store holds a handle for that subscriber from then
\* on: the subscriber gets at most one successful fresh not-found send, and
\* every later call to it in a not-found cycle is an edit.
C34_HandleNeverReset ==
    /\ [][\A k \in DictKeys(user_data_dict) :
            ~IsNone(DictGet(user_data_dict, k).status_message_id)
               => /\ DictHas(user_data_dict', k)
                  /\ ~IsNone(DictGet(user_data_dict', k).status_message_id)]_vars
    /\ [][(SendReturnsMessage /\ pending.branch = "send")
          => /\ IsNone(DictGet(user_data_dict, pending.key).status_message_id)
             /\ ~IsNone(DictGet(user_data_dict', pending.key).status_message_id)]_vars
    /\ [](\A j \in DOMAIN visits :
            /\ visits[j].action = "send" => IsNone(visits[j].status_message_id)
            /\ (/\ probe # "found"
                /\ visits[j].action \in {"send", "edit", "found"}
                /\ ~IsNone(visits[j].status_message_id))
               => visits[j].action = "edit")

\* C34 witness: the subscriber got its one fresh send in the first cycle and
\* an edit of that message in the second.
C34_Witness ==
    /\ cycle = 2
    /\ Len(messages) = 2
    /\ messages[2].chat_id = PyInt(102)
    /\ DictGet(user_data_dict, "2").status_message_id = PyInt(2)
    /\ \E i \in DOMAIN log :
         /\ log[i].cycle = 2
         /\ log[i].key = "2"
         /\ log[i].op = "edit"
         /\ log[i].message_id = PyInt(2)
         /\ log[i].result = "ok"

----------------------------------------------------------------------------
\* C35: nothing records that a found message was delivered.  A found send
\* that succeeds adds one found message to the subscriber's chat and changes
\* neither the store nor the file, and at the end of every cycle whose probe
\* reported found, the first and each one after it, every subscriber read as
\* active with a chat destination was sent exactly one fresh found message.
C35_FoundSentEveryCycle ==
    /\ [][(SendReturnsMessage /\ pending.branch = "found")
          => /\ messages' = Append(messages, [chat_id |-> pending.chat_id,
                                              found |-> TRUE])
             /\ UNCHANGED <<user_data_dict, file>>]_vars
    /\ []((pc = "idle" /\ cycle >= 1 /\ probe = "found")
          => \A j \in DOMAIN visits :
               Eligible(visits[j])
                  => /\ visits[j].action = "found"
                     /\ Cardinality(EngineCalls(visits[j].key)) = 1
                     /\ \A i \in EngineCalls(visits[j].key) :
                          /\ log[i].op = "send"
                          /\ job_found(log[i].text))

----------------------------------------------------------------------------
\* C36: a /start that registers a new subscriber while a transport call of
\* the fan-out is in flight does not abort the fan-out and does not stop the
\* poll loop: when the call returns, the iteration goes on to the entries
\* that remain, none is left unreached, and the next cycle stays scheduled.
C36_StartDuringFanOut ==
    [][(/\ pc = "await"
        /\ Len(user_data_dict) > iterSize
        /\ pending' # pending
        /\ log'[PendingIndex].result = "ok")
       => /\ ended' \in {"running", "completed"}
          /\ timer' = "armed"
          /\ \A j \in DOMAIN visits' : visits'[j].action # "unreached"]_vars

----------------------------------------------------------------------------
\* A write has failed and the file does not hold the in-memory store.
OutOfSync ==
    /\ writeFailures > 0
    /\ file.state # "doc" \/ load_data(file) # user_data_dict

\* C37: when a write has failed and left the file behind the store, the next
\* put whose write succeeds, for whichever subscriber, leaves a document that
\* loads to the whole in-memory store: every record that was in memory
\* before the put, with the mutations whose own writes had failed, is in the
\* file as it was in memory.
C37_WriteAfterFailureHeals ==
    [][(/\ OutOfSync
        /\ last'.op = "put"
        /\ last'.outcome = "ok"
        /\ user_data_dict' # user_data_dict \/ file' # file)
       => /\ file'.state = "doc"
          /\ load_data(file') = user_data_dict'
          /\ \A k \in DictKeys(user_data_dict) \ {last'.key} :
               /\ DictHas(load_data(file'), k)
               /\ DictGet(load_data(file'), k) = DictGet(user_data_dict, k)]_vars

\* C37 witness: the write of the /start that registered a subscriber failed
\* and the write of its /activate succeeded; the file holds the subscriber.
C37_Witness ==
    /\ writeFailures = 1
    /\ commands = 2
    /\ inputs = 0
    /\ cycle = 0
    /\ reply = Reply("2", "activate", "activated")
    /\ last.op = "put"
    /\ last.outcome = "ok"
    /\ file.state = "doc"
    /\ DictHas(load_data(file), "2")
    /\ DictGet(load_data(file), "2").username = PyStr("Black Cat")
    /\ Truthy(DictGet(load_data(file), "2").active)

----------------------------------------------------------------------------
\* C38: after the load fell back to the empty store (the file was missing or
\* malformed), the first mutating operation whose write succeeds rewrites
\* the file as a document of the entries now in memory and nothing else: the
\* one subscriber that operation registered.
C38_FallbackStoreOverwritesFile ==
    [][(/\ file.state # "doc"
        /\ user_data_dict = EmptyDict
        /\ user_data_dict' # EmptyDict
        /\ last'.outcome = "ok")
       => /\ file'.state = "doc"
          /\ load_data(file') = user_data_dict'
          /\ DictKeys(load_data(file')) = {last'.key}
          /\ reply'.cmd = "start"]_vars

\* C38 witness: the file held a subscriber, a failed write left it malformed,
\* the process was restarted with the empty store, and a /start has written
\* a document that holds the new subscriber alone.
C38_Witness ==
    /\ runs = 2
    /\ messages # << >>
    /\ messages[1] = PriorMessages[1]
    /\ writeFailures = 1
    /\ reply = Reply("2", "start", "welcome")
    /\ last.outcome = "ok"
    /\ file.state = "doc"
    /\ DictKeys(load_data(file)) = {"2"}
    /\ DictKeys(user_data_dict) = {"2"}

----------------------------------------------------------------------------
\* C39: a subscriber has at most one field conversation awaiting input, and
\* a text reply (or /clear) that follows the prompt of /username, /email or
\* /phone is handled by the conversation of that command.
C39_OneConversationAtATime ==
    /\ [](\A u \in UserIds : Cardinality(conversations[u]) <= 1)
    /\ [][(/\ inputs' # inputs
           /\ reply.kind = "prompt"
           /\ reply'.to = reply.to
           /\ reply'.cmd \in {"get_username", "get_email", "get_phone"})
          => reply'.cmd = "get_" \o reply.cmd]_vars
    /\ [][(/\ inputs' # inputs
           /\ reply.kind = "prompt"
           /\ reply'.to = reply.to
           /\ reply'.kind = "cleared")
          => /\ IsNone(DictGet(user_data_dict', reply.to)[reply.cmd])
             /\ conversations'[UserOf(reply.to)] = conversations[UserOf(reply.to)] \ {reply.cmd}]_vars

====
